---------------------------- MODULE Spec2Model ----------------------------
(***************************************************************************)
(* A model of blade's ninja rules generator (src/blade/rules_generator.py): *)
(* NinjaScriptHeaderGenerator, which appends text blocks to rules_buf and  *)
(* records rule names, and NinjaRulesGenerator / RulesGenerator, which     *)
(* build the rules and write them to the script file.                      *)
(*                                                                         *)
(* Text is a sequence of chunks (strings); concatenating texts is \o.      *)
(* Every ${variable} of a command is a chunk of its own, and a path is a   *)
(* text whose chunks are path components and "/" separators.               *)
(* One entry of rules_buf is one _add_rule call: a record                  *)
(*   [kind, name, val, depth]                                              *)
(*   kind = "rule"   'rule <name>'                                         *)
(*   kind = "field"  '  <name> = <val>'                                    *)
(*   kind = "pool"   'pool <name>\n  depth = <depth>'                      *)
(*   kind = "text"   a block of comment and variable lines, <val>          *)
(*   kind = "build"  'build <val>', an edge that uses rule <name>          *)
(* A backquote of the source's command text is written ' here.            *)
(***************************************************************************)
EXTENDS Integers, Sequences, FiniteSets, TLC

VARIABLES
    cfg,              \* the configuration and environment the generator reads
    rules_buf,        \* ScriptHeaderGenerator.rules_buf
    all_rule_names,   \* NinjaScriptHeaderGenerator.__all_rule_names (a set)
    environ,          \* os.environ entries the generator sets
    gen_calls,        \* generate() calls made on the header generator so far
    gen_first,        \* what the first generate() call returned, when it returned
    gen_last,         \* what the latest generate() call returned, when it returned
    seg_from,         \* Len(rules_buf) when the latest generate() call started
    seg_to,           \* Len(rules_buf) when the latest generate() call ended
    ninja_rule_names, \* NinjaRulesGenerator.__all_rule_names
    script_file,      \* the content of the file at script_path
    pc,               \* where the caller is
    last_args,        \* the arguments of the latest direct generate_rule call
    toolchain_call    \* the latest direct _toolchain_command call and its result

vars == <<cfg, rules_buf, all_rule_names, environ, gen_calls, gen_first, gen_last,
          seg_from, seg_to, ninja_rule_names, script_file, pc, last_args,
          toolchain_call>>

----------------------------------------------------------------------------
(* Bounds of the model *)

MaxGenerate == 2

MaxLinkJobs == 4

(* Values of blade.parallel_jobs_num() the model draws from *)
ParallelJobs == {2, 8}

----------------------------------------------------------------------------
(* Text helpers *)

Min(a, b) == IF a <= b THEN a ELSE b

RECURSIVE Join(_, _)
(* sep.join(list): list is a sequence of strings, the result is a text *)
Join(list, sep) ==
    IF list = <<>> THEN <<>>
    ELSE IF Len(list) = 1 THEN <<list[1]>>
    ELSE <<list[1], sep>> \o Join(Tail(list), sep)

RECURSIVE Repeat(_, _)
Repeat(x, n) == IF n <= 0 THEN <<>> ELSE <<x>> \o Repeat(x, n - 1)

(* An optional argument: None, or Some(value) *)
None == {}

Some(x) == {x}

ValueOf(o) == CHOOSE x \in o : TRUE

(* Python truth of an optional text: neither None nor empty *)
Truthy(o) == o # None /\ o # Some(<<>>)

----------------------------------------------------------------------------
(* os.path (posixpath), on texts whose chunks are components and "/" *)

Comps(path) == SelectSeq(path, LAMBDA a : a # "/")

isabs(path) == Len(path) > 0 /\ path[1] = "/"

endswith_sep(path) == Len(path) > 0 /\ path[Len(path)] = "/"

path_join(a, b) ==
    IF isabs(b) THEN b
    ELSE IF a = <<>> \/ endswith_sep(a) THEN a \o b
    ELSE a \o <<"/">> \o b

RECURSIVE NormComps(_, _, _)
(* the loop of posixpath.normpath over the components *)
NormComps(comps, new_comps, initial_slashes) ==
    IF comps = <<>> THEN new_comps
    ELSE LET comp == Head(comps)
             n == Len(new_comps)
         IN  IF comp = "."
             THEN NormComps(Tail(comps), new_comps, initial_slashes)
             ELSE IF comp # ".." \/ (initial_slashes = 0 /\ n = 0)
                                 \/ (n > 0 /\ new_comps[n] = "..")
             THEN NormComps(Tail(comps), Append(new_comps, comp), initial_slashes)
             ELSE IF n > 0
             THEN NormComps(Tail(comps), SubSeq(new_comps, 1, n - 1), initial_slashes)
             ELSE NormComps(Tail(comps), new_comps, initial_slashes)

InitialSlashes(path) ==
    IF ~isabs(path) THEN 0
    ELSE IF Len(path) >= 2 /\ path[2] = "/" /\ ~(Len(path) >= 3 /\ path[3] = "/")
    THEN 2
    ELSE 1

normpath(path) ==
    IF path = <<>> THEN <<".">>
    ELSE LET s == InitialSlashes(path)
             p == Repeat("/", s) \o Join(NormComps(Comps(path), <<>>, s), "/")
         IN  IF p = <<>> THEN <<".">> ELSE p

abspath(cwd, path) ==
    normpath(IF isabs(path) THEN path ELSE path_join(cwd, path))

RECURSIVE CommonLen(_, _)
CommonLen(a, b) ==
    IF a = <<>> \/ b = <<>> \/ Head(a) # Head(b) THEN 0
    ELSE 1 + CommonLen(Tail(a), Tail(b))

(* os.path.relpath(path, start), for a non-empty path *)
relpath(cwd, path, start) ==
    LET start_list == Comps(abspath(cwd, start))
        path_list == Comps(abspath(cwd, path))
        i == CommonLen(start_list, path_list)
        rel_list == Repeat("..", Len(start_list) - i)
                    \o SubSeq(path_list, i + 1, Len(path_list))
    IN  IF rel_list = <<>> THEN <<".">> ELSE Join(rel_list, "/")

----------------------------------------------------------------------------
(* The header generator.  A routine only appends entries to rules_buf, adds  *)
(* names to the rule-name set, sets os.environ entries, or exits; it is      *)
(* modelled by that effect: [buf, names, env, aborted].  A caller applies    *)
(* the effects of the routines it calls in the order of its source lines.    *)

Entry(kind, name, val, depth) ==
    [kind |-> kind, name |-> name, val |-> val, depth |-> depth]

Effect(buf, names) == [buf |-> buf, names |-> names, env |-> {}, aborted |-> FALSE]

(* Effect a, then effect b unless a exits *)
Then(a, b) ==
    CHOOSE r \in { IF x.aborted THEN x
                   ELSE [buf |-> x.buf \o y.buf, names |-> x.names \cup y.names,
                         env |-> x.env \cup y.env, aborted |-> y.aborted] :
                   x \in {a}, y \in {b} } : TRUE

RECURSIVE DoFrom(_, _)
DoFrom(effs, i) ==
    IF i > Len(effs) THEN Effect(<<>>, {}) ELSE Then(effs[i], DoFrom(effs, i + 1))

(* The effect of a sequence of calls: an exit ends it *)
Do(effs) == CHOOSE r \in { DoFrom(v, 1) : v \in {effs} } : TRUE

_add_rule(entry) == Effect(<<entry>>, {})

(* console.colored(text, 'dimpurple') *)
colored(text) == <<"\\033[dimpurple">> \o text \o <<"\\033[0m">>

(* console.error_exit(msg): the process exits *)
error_exit == [buf |-> <<>>, names |-> {}, env |-> {}, aborted |-> TRUE]

(* The defaults of generate_rule's keyword arguments *)
RuleDefaults ==
    [description |-> None, depfile |-> None, generator |-> FALSE, pool |-> None,
     restat |-> FALSE, rspfile |-> None, rspfile_content |-> None, deps |-> None]

Field(key, val) == Entry("field", key, val, 0)

(* rule_entries with 'if depfile is not None' for 'if depfile': a variant *)
(* that emits an empty depfile line                                        *)
rule_entries_depfile_not_none(a) ==
    <<Entry("rule", a.name, <<>>, 0), Field("command", a.command)>>
    \o (IF Truthy(a.description)
        THEN <<Field("description", colored(ValueOf(a.description)))>> ELSE <<>>)
    \o (IF a.depfile # None THEN <<Field("depfile", ValueOf(a.depfile))>> ELSE <<>>)
    \o (IF a.generator THEN <<Field("generator", <<"1">>)>> ELSE <<>>)
    \o (IF Truthy(a.pool) THEN <<Field("pool", ValueOf(a.pool))>> ELSE <<>>)
    \o (IF a.restat THEN <<Field("restat", <<"1">>)>> ELSE <<>>)
    \o (IF Truthy(a.rspfile) THEN <<Field("rspfile", ValueOf(a.rspfile))>> ELSE <<>>)
    \o (IF Truthy(a.rspfile_content)
        THEN <<Field("rspfile_content", ValueOf(a.rspfile_content))>> ELSE <<>>)
    \o (IF Truthy(a.deps) THEN <<Field("deps", ValueOf(a.deps))>> ELSE <<>>)

(* lines 96-113: the lines generate_rule appends for its arguments a *)
rule_entries(a) ==
    <<Entry("rule", a.name, <<>>, 0), Field("command", a.command)>>
    \o (IF Truthy(a.description)
        THEN <<Field("description", colored(ValueOf(a.description)))>> ELSE <<>>)
    \o (IF Truthy(a.depfile) THEN <<Field("depfile", ValueOf(a.depfile))>> ELSE <<>>)
    \o (IF a.generator THEN <<Field("generator", <<"1">>)>> ELSE <<>>)
    \o (IF Truthy(a.pool) THEN <<Field("pool", ValueOf(a.pool))>> ELSE <<>>)
    \o (IF a.restat THEN <<Field("restat", <<"1">>)>> ELSE <<>>)
    \o (IF Truthy(a.rspfile) THEN <<Field("rspfile", ValueOf(a.rspfile))>> ELSE <<>>)
    \o (IF Truthy(a.rspfile_content)
        THEN <<Field("rspfile_content", ValueOf(a.rspfile_content))>> ELSE <<>>)
    \o (IF Truthy(a.deps) THEN <<Field("deps", ValueOf(a.deps))>> ELSE <<>>)

(* generate_rule that registers the name only of a rule without a pool: a *)
(* variant                                                                *)
generate_rule_pool_unregistered(a) ==
    CHOOSE e \in { Effect(rule_entries(v), IF Truthy(v.pool) THEN {} ELSE {v.name}) :
                   v \in {a} } : TRUE

(* generate_rule: the name is added to the set (line 95), the lines appended *)
generate_rule(a) ==
    CHOOSE e \in { Effect(rule_entries(v), {v.name}) : v \in {a} } : TRUE

(* generate_rule(name=..., command=..., description=...) *)
Rule(name, command, description) ==
    generate_rule([name |-> name, command |-> command,
                   description |-> Some(description)] @@ RuleDefaults)

HeavyPoolDepth == 1

generate_file_header ==
    Do(<< _add_rule(Entry("text", "", <<"# build.ninja generated by blade\n",
                                        "ninja_required_version = 1.7\n",
                                        "builddir = ", cfg.build_dir>>, 0)),
          _add_rule(Entry("pool", "heavy_pool", <<>>, HeavyPoolDepth)) >>)

generate_common_rules ==
    Do(<< Rule("stamp", <<"touch ", "${out}">>, <<"STAMP ", "${out}">>),
          Rule("copy", <<"cp -f ", "${in}", " ", "${out}">>,
               <<"COPY ", "${in}", " ", "${out}">>) >>)

(* _toolchain_command that appends the suffix after '${out} ${in}' instead *)
(* of in its place: a variant                                              *)
_toolchain_command_suffix_added(builder, prefix, suffix) ==
    LET cmd0 == <<"PYTHONPATH=", cfg.blade_path, ":$$PYTHONPATH">>
        cmd1 == IF prefix # <<>> THEN cmd0 \o <<" ">> \o prefix ELSE cmd0
        cmd2 == cmd1 \o <<" ", cfg.executable, " -m blade.toolchain ", builder>>
        cmd3 == cmd2 \o <<" ", "${out}", " ", "${in}">>
    IN  IF suffix # <<>> THEN cmd3 \o <<" ">> \o suffix ELSE cmd3

(* _toolchain_command(builder, prefix, suffix) *)
_toolchain_command(builder, prefix, suffix) ==
    LET cmd0 == <<"PYTHONPATH=", cfg.blade_path, ":$$PYTHONPATH">>
        cmd1 == IF prefix # <<>> THEN cmd0 \o <<" ">> \o prefix ELSE cmd0
        cmd2 == cmd1 \o <<" ", cfg.executable, " -m blade.toolchain ", builder>>
    IN  IF suffix # <<>> THEN cmd2 \o <<" ">> \o suffix
        ELSE cmd2 \o <<" ", "${out}", " ", "${in}">>

generate_cc_warning_vars ==
    LET c_warnings == cfg.c_warnings \o cfg.warnings
        cxx_warnings == cfg.cxx_warnings \o cfg.warnings
    IN  _add_rule(Entry("text", "",
                        <<"c_warnings = ">> \o Join(c_warnings, " ")
                        \o <<"\n", "cxx_warnings = ">> \o Join(cxx_warnings, " ")
                        \o <<"\n">>, 0))

(* The command of the 'cc' and 'cxx' rules *)
cc_compile_command(compiler, flags, warnings_var, cppflags, includes) ==
    compiler \o <<" -o ", "${out}", " -MMD -MF ", "${out}", ".d -c -fPIC ">>
    \o Join(flags, " ") \o <<" ">> \o Join(cppflags, " ")
    \o <<" ", warnings_var, " ", "${cppflags}", " ">> \o includes
    \o <<" ", "${includes}", " ", "${in}">>

(* The command of the 'cchdrs' and 'cxxhdrs' rules *)
cc_preprocess_command(compiler, flags, cppflags, includes) ==
    compiler \o <<" -o /dev/null -E -H ">> \o Join(flags, " ") \o <<" ">>
    \o Join(cppflags, " ") \o <<" -w ", "${cppflags}", " ">> \o includes
    \o <<" ", "${includes}", " ", "${in}", " 2>", "${out}">>

(* The command of the 'link' and 'solink' rules *)
cc_link_command(ld, shared, ldflags) ==
    <<ld, " -o ", "${out}", " ">> \o (IF shared THEN <<"-shared ">> ELSE <<>>)
    \o Join(ldflags, " ") \o <<" ", "${ldflags}", " ", "${in}", " ", "${extra_ldflags}">>

(* link_pool_depth without the min(): a variant *)
link_pool_depth_unclamped(link_jobs) == link_jobs

(* line 209: the depth of the link pool *)
link_pool_depth(link_jobs) == Min(link_jobs, cfg.parallel_jobs)

(* lines 207-216: the link pool's declaration, and the pool of the link rules *)
link_pool(link_jobs) ==
    IF link_jobs # 0
    THEN [decl |-> <<_add_rule(Entry("pool", "link_pool", <<>>,
                                     link_pool_depth(link_jobs)))>>,
          pool |-> Some(<<"link_pool">>)]
    ELSE [decl |-> <<>>, pool |-> None]

(* cc_compile_rules whose 'cxx' rule has no deps: a variant *)
cc_compile_rules_cxx_no_deps(cc, cxx, cflags, cxxflags, cppflags, includes) ==
    << generate_rule(
           [name |-> "cc",
            command |-> cc_compile_command(cc, cflags, "${c_warnings}", cppflags, includes),
            description |-> Some(<<"CC ", "${in}">>),
            depfile |-> Some(<<"${out}", ".d">>),
            deps |-> Some(<<"gcc">>)] @@ RuleDefaults),
       generate_rule(
           [name |-> "cxx",
            command |-> cc_compile_command(cxx, cxxflags, "${cxx_warnings}", cppflags,
                                           includes),
            description |-> Some(<<"CXX ", "${in}">>),
            depfile |-> Some(<<"${out}", ".d">>)] @@ RuleDefaults) >>

(* lines 166-181: the 'cc' and 'cxx' rules *)
cc_compile_rules(cc, cxx, cflags, cxxflags, cppflags, includes) ==
    << generate_rule(
           [name |-> "cc",
            command |-> cc_compile_command(cc, cflags, "${c_warnings}", cppflags, includes),
            description |-> Some(<<"CC ", "${in}">>),
            depfile |-> Some(<<"${out}", ".d">>),
            deps |-> Some(<<"gcc">>)] @@ RuleDefaults),
       generate_rule(
           [name |-> "cxx",
            command |-> cc_compile_command(cxx, cxxflags, "${cxx_warnings}", cppflags,
                                           includes),
            description |-> Some(<<"CXX ", "${in}">>),
            depfile |-> Some(<<"${out}", ".d">>),
            deps |-> Some(<<"gcc">>)] @@ RuleDefaults) >>

generate_cc_rules ==
    LET build_with_ccache == cfg.ccache_installed
        setenv == IF build_with_ccache
                  THEN <<[Effect(<<>>, {}) EXCEPT !.env =
                             {<<"CCACHE_BASEDIR", cfg.blade_root_dir>>,
                              <<"CCACHE_NOHASHDIR", "true">>}]>>
                  ELSE <<>>
        cc == IF build_with_ccache THEN <<"ccache ", cfg.CC>> ELSE <<cfg.CC>>
        cxx == IF build_with_ccache THEN <<"ccache ", cfg.CXX>> ELSE <<cfg.CXX>>
        ld == cfg.LD
        cflags == cfg.cflags
        cxxflags == cfg.cxxflags
        cppflags == cfg.cppflags \o cfg.flags_except_warning[1]
        arflags == cfg.arflags
        ldflags == cfg.linkflags \o cfg.flags_except_warning[2]
        incs == cfg.extra_incs \o <<".", cfg.build_dir>>
        includes == Join([i \in DOMAIN incs |-> "-I" \o incs[i]], " ")
        hdrs == IF cfg.header_inclusion_dependencies
                THEN << Rule("cchdrs",
                             cc_preprocess_command(cc, cflags, cppflags, includes),
                             <<"CC HDRS ", "${in}">>),
                        Rule("cxxhdrs",
                             cc_preprocess_command(cxx, cxxflags, cppflags, includes),
                             <<"CXX HDRS ", "${in}">>) >>
                ELSE <<>>
        securecc == <<cfg.securecc, " ">> \o cxx
        link_jobs == cfg.link_jobs
        lp == link_pool(link_jobs)
    IN  Do(setenv
           \o << generate_cc_warning_vars >>
           \o cc_compile_rules(cc, cxx, cflags, cxxflags, cppflags, includes)
           \o hdrs
           \o << _add_rule(Entry("build", "phony", <<"__securecc_phony__ : phony\n">>, 0)),
                 Rule("securecccompile",
                      securecc \o <<" -o ", "${out}", " -c -fPIC ">>
                      \o Join(cxxflags, " ") \o <<" ">> \o Join(cppflags, " ")
                      \o <<" ", "${cxx_warnings}", " ", "${cppflags}", " ">> \o includes
                      \o <<" ", "${includes}", " ", "${in}">>,
                      <<"SECURECC ", "${in}">>),
                 generate_rule(
                     [name |-> "securecc",
                      command |-> _toolchain_command("securecc_object", <<>>, <<>>),
                      description |-> Some(<<"SECURECC ", "${in}">>),
                      restat |-> TRUE] @@ RuleDefaults),
                 Rule("ar", <<"rm -f $out; ar ">> \o arflags \o <<" $out $in">>,
                      <<"AR ", "${out}">>) >>
           \o lp.decl
           \o << generate_rule(
                     [name |-> "link",
                      command |-> cc_link_command(ld, FALSE, ldflags),
                      description |-> Some(<<"LINK ", "${out}">>),
                      pool |-> lp.pool] @@ RuleDefaults),
                 generate_rule(
                     [name |-> "solink",
                      command |-> cc_link_command(ld, TRUE, ldflags),
                      description |-> Some(<<"SHAREDLINK ", "${out}">>),
                      pool |-> lp.pool] @@ RuleDefaults),
                 Rule("strip", <<"strip --strip-unneeded -o ", "${out}", " ", "${in}">>,
                      <<"STRIP ", "${out}">>) >>)

(* protoc_import_path_option(incs) *)
protoc_import_path_option(incs) ==
    Join([i \in DOMAIN incs |-> "-I=" \o incs[i]], " ")

(* generate_proto_rules without the test of go_home (lines 271-272): a *)
(* variant                                                             *)
generate_proto_rules_no_go_home_check ==
    LET protoc == cfg.protoc
        protoc_java == IF cfg.protoc_java # "" THEN cfg.protoc_java ELSE protoc
        protobuf_incs == protoc_import_path_option(cfg.protobuf_incs)
        protobuf_java_incs ==
            IF cfg.protobuf_java_incs # <<>>
            THEN protoc_import_path_option(cfg.protobuf_java_incs)
            ELSE protobuf_incs
        protoc_go_plugin == cfg.protoc_go_plugin
        go_home == cfg.go_home
        outdir == IF cfg.go_module_enabled /\ cfg.go_module_relpath = <<>>
                  THEN <<cfg.protobuf_go_path>>
                  ELSE path_join(go_home, <<"src">>)
        subplugins == cfg.protoc_go_subplugins
        go_out == IF subplugins # <<>>
                  THEN <<"plugins=">> \o Join(subplugins, "+") \o <<":">> \o outdir
                  ELSE outdir
        protogo ==
            IF protoc_go_plugin = "" THEN <<>>
            ELSE << Rule("protogo",
                         <<protoc, " --proto_path=. ">> \o protobuf_incs
                         \o <<" -I='dirname ", "${in}", "' --plugin=protoc-gen-go=",
                              protoc_go_plugin, " --go_out=">> \o go_out
                         \o <<" ", "${in}">>,
                         <<"PROTOCGOLANG ", "${in}">>) >>
    IN  Do(<< _add_rule(Entry("text", "",
                              <<"protocflags =\n", "protoccpppluginflags =\n",
                                "protocjavapluginflags =\n",
                                "protocpythonpluginflags =\n">>, 0)),
              Rule("proto",
                   <<protoc, " --proto_path=. ">> \o protobuf_incs
                   \o <<" -I='dirname ", "${in}", "' --cpp_out=", cfg.build_dir, " ",
                        "${protocflags}", " ", "${protoccpppluginflags}", " ", "${in}">>,
                   <<"PROTOC ", "${in}">>),
              Rule("protojava",
                   <<protoc_java, " --proto_path=. ">> \o protobuf_java_incs
                   \o <<" --java_out=", cfg.build_dir, "/'dirname ", "${in}", "' ",
                        "${protocjavapluginflags}", " ", "${in}">>,
                   <<"PROTOCJAVA ", "${in}">>),
              Rule("protopython",
                   <<protoc, " --proto_path=. ">> \o protobuf_incs
                   \o <<" -I='dirname ", "${in}", "' --python_out=", cfg.build_dir, " ",
                        "${protocpythonpluginflags}", " ", "${in}">>,
                   <<"PROTOCPYTHON ", "${in}">>),
              Rule("protodescriptors",
                   <<protoc, " --proto_path=. ">> \o protobuf_incs
                   \o <<" -I='dirname ", "${first}", "' --descriptor_set_out=", "${out}",
                        " --include_imports --include_source_info ", "${in}">>,
                   <<"PROTODESCRIPTORS ", "${in}">>) >>
           \o protogo)

generate_proto_rules ==
    LET protoc == cfg.protoc
        protoc_java == IF cfg.protoc_java # "" THEN cfg.protoc_java ELSE protoc
        protobuf_incs == protoc_import_path_option(cfg.protobuf_incs)
        protobuf_java_incs ==
            IF cfg.protobuf_java_incs # <<>>
            THEN protoc_import_path_option(cfg.protobuf_java_incs)
            ELSE protobuf_incs
        protoc_go_plugin == cfg.protoc_go_plugin
        go_home == cfg.go_home
        outdir == IF cfg.go_module_enabled /\ cfg.go_module_relpath = <<>>
                  THEN <<cfg.protobuf_go_path>>
                  ELSE path_join(go_home, <<"src">>)
        subplugins == cfg.protoc_go_subplugins
        go_out == IF subplugins # <<>>
                  THEN <<"plugins=">> \o Join(subplugins, "+") \o <<":">> \o outdir
                  ELSE outdir
        protogo ==
            IF protoc_go_plugin = "" THEN <<>>
            ELSE IF go_home = <<>> THEN <<error_exit>>
            ELSE << Rule("protogo",
                         <<protoc, " --proto_path=. ">> \o protobuf_incs
                         \o <<" -I='dirname ", "${in}", "' --plugin=protoc-gen-go=",
                              protoc_go_plugin, " --go_out=">> \o go_out
                         \o <<" ", "${in}">>,
                         <<"PROTOCGOLANG ", "${in}">>) >>
    IN  Do(<< _add_rule(Entry("text", "",
                              <<"protocflags =\n", "protoccpppluginflags =\n",
                                "protocjavapluginflags =\n",
                                "protocpythonpluginflags =\n">>, 0)),
              Rule("proto",
                   <<protoc, " --proto_path=. ">> \o protobuf_incs
                   \o <<" -I='dirname ", "${in}", "' --cpp_out=", cfg.build_dir, " ",
                        "${protocflags}", " ", "${protoccpppluginflags}", " ", "${in}">>,
                   <<"PROTOC ", "${in}">>),
              Rule("protojava",
                   <<protoc_java, " --proto_path=. ">> \o protobuf_java_incs
                   \o <<" --java_out=", cfg.build_dir, "/'dirname ", "${in}", "' ",
                        "${protocjavapluginflags}", " ", "${in}">>,
                   <<"PROTOCJAVA ", "${in}">>),
              Rule("protopython",
                   <<protoc, " --proto_path=. ">> \o protobuf_incs
                   \o <<" -I='dirname ", "${in}", "' --python_out=", cfg.build_dir, " ",
                        "${protocpythonpluginflags}", " ", "${in}">>,
                   <<"PROTOCPYTHON ", "${in}">>),
              Rule("protodescriptors",
                   <<protoc, " --proto_path=. ">> \o protobuf_incs
                   \o <<" -I='dirname ", "${first}", "' --descriptor_set_out=", "${out}",
                        " --include_imports --include_source_info ", "${in}">>,
                   <<"PROTODESCRIPTORS ", "${in}">>) >>
           \o protogo)

generate_resource_rules ==
    LET args == <<"${name}", " ", "${path}", " ", "${out}", " ", "${in}">>
    IN  Do(<< Rule("resource_index", _toolchain_command("resource_index", <<>>, args),
                   <<"RESOURCE INDEX ", "${out}">>),
              Rule("resource",
                   <<"xxd -i ", "${in}",
                     " | sed -e \"s/^unsigned char /const char RESOURCE_/g\" ",
                     "-e \"s/^unsigned int /const unsigned int RESOURCE_/g\" > ", "${out}">>,
                   <<"RESOURCE ", "${in}">>) >>)

get_java_command(java_home, cmd) ==
    IF java_home # <<>> THEN path_join(path_join(java_home, <<"bin">>), <<cmd>>)
    ELSE <<cmd>>

generate_javac_rules ==
    LET javac == get_java_command(cfg.java_home, "javac")
        jar == get_java_command(cfg.java_home, "jar")
        source_version == cfg.java_source_version
        target_version == cfg.java_target_version
        cmd == javac
               \o (IF source_version # "" THEN <<" -source ", source_version>> ELSE <<>>)
               \o (IF target_version # "" THEN <<" -target ", target_version>> ELSE <<>>)
               \o <<" -encoding ", "${source_encoding}", " -d ", "${classes_dir}",
                    " -classpath ", "${classpath}", " ", "${javacflags}", " ", "${in}">>
    IN  Do(<< _add_rule(Entry("text", "",
                              <<"source_encoding = UTF-8\n", "classpath = .\n",
                                "javacflags =\n">>, 0)),
              Rule("javac",
                   <<"rm -fr ", "${classes_dir}", " && mkdir -p ", "${classes_dir}",
                     " && ">>
                   \o cmd \o <<" && sleep 0.5 && ">> \o jar
                   \o <<" cf ", "${out}", " -C ", "${classes_dir}", " .">>,
                   <<"JAVAC ", "${in}">>) >>)

generate_java_resource_rules ==
    Rule("javaresource", _toolchain_command("java_resource", <<>>, <<>>),
         <<"JAVA RESOURCE ", "${in}">>)

generate_java_test_rules ==
    LET jacoco_home == cfg.jacoco_home
        prefix == IF jacoco_home # <<>>
                  THEN <<"BLADE_JACOCOAGENT=">>
                       \o path_join(path_join(jacoco_home, <<"lib">>), <<"jacocoagent.jar">>)
                  ELSE <<>>
        args == <<"${mainclass}", " ", "${javatargetundertestpkg}", " ", "${out}", " ",
                  "${in}">>
    IN  Do(<< _add_rule(Entry("text", "",
                              <<"javatargetundertestpkg = __targetundertestpkg__">>, 0)),
              Rule("javatest", _toolchain_command("java_test", prefix, args),
                   <<"JAVA TEST ", "${out}">>) >>)

generate_java_binary_rules ==
    LET bootjar == cfg.one_jar_boot_jar
        args == <<bootjar, " ", "${mainclass}", " ", "${out}", " ", "${in}">>
    IN  Do(<< Rule("onejar", _toolchain_command("java_onejar", <<>>, args),
                   <<"ONE JAR ", "${out}">>),
              Rule("javabinary", _toolchain_command("java_binary", <<>>, <<>>),
                   <<"JAVA BIN ", "${out}">>) >>)

generate_scala_rules ==
    LET scala_home == cfg.scala_home
        scala == IF scala_home # <<>>
                 THEN path_join(path_join(scala_home, <<"bin">>), <<"scala">>)
                 ELSE <<"scala">>
        scalac == IF scala_home # <<>>
                  THEN path_join(path_join(scala_home, <<"bin">>), <<"scalac">>)
                  ELSE <<"scalac">>
        java == get_java_command(cfg.java_home, "java")
        cmd == <<"JAVACMD=">> \o java \o <<" ">> \o scalac
               \o <<" -encoding UTF8 -d ", "${out}", " -classpath ", "${classpath}", " ",
                    "${scalacflags}", " ", "${in}">>
        args == java \o <<" ">> \o scala \o <<" ", "${out}", " ", "${in}">>
    IN  Do(<< _add_rule(Entry("text", "", <<"scalacflags = -nowarn\n">>, 0)),
              Rule("scalac", cmd, <<"SCALAC ", "${out}">>),
              Rule("scalatest", _toolchain_command("scala_test", <<>>, args),
                   <<"SCALA TEST ", "${out}">>) >>)

generate_java_scala_rules ==
    LET jar == get_java_command(cfg.java_home, "jar")
        args == jar \o <<" ", "${out}", " ", "${in}">>
    IN  Do(<< generate_javac_rules,
              generate_java_resource_rules,
              Rule("javajar", _toolchain_command("java_jar", <<>>, args),
                   <<"JAVA JAR ", "${out}">>),
              generate_java_test_rules,
              Rule("fatjar", _toolchain_command("java_fatjar", <<>>, <<>>),
                   <<"FAT JAR ", "${out}">>),
              generate_java_binary_rules,
              generate_scala_rules >>)

(* _incs_list_to_string(incs) *)
_incs_list_to_string(incs) ==
    Join([i \in DOMAIN incs |-> "-I " \o incs[i]], " ")

(* lines 414-417: a thrift given as a //path:name target is under build_dir *)
thrift_command_path(thrift) ==
    IF Len(thrift) > 0 /\ thrift[1] = "//"
    THEN [i \in DOMAIN thrift |->
             IF thrift[i] = "//" THEN cfg.build_dir \o "/"
             ELSE IF thrift[i] = ":" THEN "/" ELSE thrift[i]]
    ELSE thrift

generate_thrift_rules ==
    LET incs == _incs_list_to_string(cfg.thrift_incs)
        gen_params == cfg.thrift_gen_params
        thrift == thrift_command_path(cfg.thrift)
    IN  Rule("thrift",
             thrift \o <<" --gen ", gen_params, " -I . ">> \o incs
             \o <<" -I 'dirname ", "${in}", "' -out ", cfg.build_dir, "/'dirname ",
                  "${in}", "' ", "${in}">>,
             <<"THRIFT ", "${in}">>)

generate_python_rules ==
    LET args1 == <<"${pythonbasedir}", " ", "${out}", " ", "${in}">>
        args2 == <<"${pythonbasedir}", " ", "${mainentry}", " ", "${out}", " ", "${in}">>
    IN  Do(<< _add_rule(Entry("text", "", <<"pythonbasedir = __pythonbasedir__\n">>, 0)),
              Rule("pythonlibrary", _toolchain_command("python_library", <<>>, args1),
                   <<"PYTHON LIBRARY ", "${out}">>),
              Rule("pythonbinary", _toolchain_command("python_binary", <<>>, args2),
                   <<"PYTHON BINARY ", "${out}">>) >>)

GoPoolDepth == 1

(* lines 448-461: the command prefix of the Go rules *)
go_prefix(go_home, go, go_module_enabled, go_module_relpath) ==
    LET go_path == normpath(abspath(cfg.cwd, go_home))
    IN  IF go_module_enabled
        THEN IF go_module_relpath # <<>>
             THEN <<"cd ">> \o go_module_relpath \o <<" && ">>
                  \o relpath(cfg.cwd, go, go_module_relpath)
             ELSE go
        ELSE <<"GOPATH=">> \o go_path \o <<" ">> \o go

(* go_out_relative with relpath's arguments swapped: a variant *)
go_out_relative_swapped(go_module_enabled, go_module_relpath) ==
    IF go_module_enabled /\ go_module_relpath # <<>>
    THEN path_join(relpath(cfg.cwd, go_module_relpath, <<".", "/">>), <<>>)
    ELSE <<>>

(* lines 449-459: what the Go rules put before ${out} *)
go_out_relative(go_module_enabled, go_module_relpath) ==
    IF go_module_enabled /\ go_module_relpath # <<>>
    THEN path_join(relpath(cfg.cwd, <<".", "/">>, go_module_relpath), <<>>)
    ELSE <<>>

(* generate_go_rules with 'if go_home:' for 'if go_home and go:' (line 443): *)
(* a variant                                                                *)
generate_go_rules_go_home_only ==
    LET go_home == cfg.go_home
        go == cfg.go
        go_module_enabled == cfg.go_module_enabled
        go_module_relpath == cfg.go_module_relpath
        go_pool == <<"golang_pool">>
        prefix == go_prefix(go_home, go, go_module_enabled, go_module_relpath)
        out_relative == go_out_relative(go_module_enabled, go_module_relpath)
    IN  IF go_home # <<>>
        THEN Do(<< _add_rule(Entry("pool", "golang_pool", <<>>, GoPoolDepth)),
                   generate_rule(
                       [name |-> "gopackage",
                        command |-> prefix \o <<" install ", "${extra_goflags}", " ",
                                                "${package}">>,
                        description |-> Some(<<"GOLANG PACKAGE ", "${package}">>),
                        pool |-> Some(go_pool)] @@ RuleDefaults),
                   generate_rule(
                       [name |-> "gocommand",
                        command |-> prefix \o <<" build -o ">> \o out_relative
                                    \o <<"${out}", " ", "${extra_goflags}", " ",
                                         "${package}">>,
                        description |-> Some(<<"GOLANG COMMAND ", "${package}">>),
                        pool |-> Some(go_pool)] @@ RuleDefaults),
                   generate_rule(
                       [name |-> "gotest",
                        command |-> prefix \o <<" test -c -o ">> \o out_relative
                                    \o <<"${out}", " ", "${extra_goflags}", " ",
                                         "${package}">>,
                        description |-> Some(<<"GOLANG TEST ", "${package}">>),
                        pool |-> Some(go_pool)] @@ RuleDefaults) >>)
        ELSE Do(<<>>)

generate_go_rules ==
    LET go_home == cfg.go_home
        go == cfg.go
        go_module_enabled == cfg.go_module_enabled
        go_module_relpath == cfg.go_module_relpath
        go_pool == <<"golang_pool">>
        prefix == go_prefix(go_home, go, go_module_enabled, go_module_relpath)
        out_relative == go_out_relative(go_module_enabled, go_module_relpath)
    IN  IF go_home # <<>> /\ go # <<>>
        THEN Do(<< _add_rule(Entry("pool", "golang_pool", <<>>, GoPoolDepth)),
                   generate_rule(
                       [name |-> "gopackage",
                        command |-> prefix \o <<" install ", "${extra_goflags}", " ",
                                                "${package}">>,
                        description |-> Some(<<"GOLANG PACKAGE ", "${package}">>),
                        pool |-> Some(go_pool)] @@ RuleDefaults),
                   generate_rule(
                       [name |-> "gocommand",
                        command |-> prefix \o <<" build -o ">> \o out_relative
                                    \o <<"${out}", " ", "${extra_goflags}", " ",
                                         "${package}">>,
                        description |-> Some(<<"GOLANG COMMAND ", "${package}">>),
                        pool |-> Some(go_pool)] @@ RuleDefaults),
                   generate_rule(
                       [name |-> "gotest",
                        command |-> prefix \o <<" test -c -o ">> \o out_relative
                                    \o <<"${out}", " ", "${extra_goflags}", " ",
                                         "${package}">>,
                        description |-> Some(<<"GOLANG TEST ", "${package}">>),
                        pool |-> Some(go_pool)] @@ RuleDefaults) >>)
        ELSE Do(<<>>)

generate_shell_rules ==
    LET args == <<"${out}", " ", "${in}", " ", "${testdata}">>
    IN  Do(<< Rule("shelltest", _toolchain_command("shell_test", <<>>, <<>>),
                   <<"SHELL TEST ", "${out}">>),
              Rule("shelltestdata", _toolchain_command("shell_testdata", <<>>, args),
                   <<"SHELL TEST DATA ", "${out}">>) >>)

generate_lex_yacc_rules ==
    Do(<< Rule("lex", <<"flex ", "${lexflags}", " -o ", "${out}", " ", "${in}">>,
               <<"LEX ", "${in}">>),
          Rule("yacc", <<"bison ", "${yaccflags}", " -o ", "${out}", " ", "${in}">>,
               <<"YACC ", "${in}">>) >>)

generate_package_rules ==
    LET args == <<"${out}", " ", "${in}", " ", "${entries}">>
    IN  Do(<< Rule("package", _toolchain_command("package", <<>>, args),
                   <<"PACKAGE ", "${out}">>),
              Rule("package_tar",
                   <<"tar -c -f ", "${out}", " ", "${tarflags}", " -C ", "${packageroot}",
                     " ", "${entries}">>,
                   <<"TAR ", "${out}">>),
              Rule("package_zip",
                   <<"cd ", "${packageroot}", " && zip -q temp_archive.zip ", "${entries}",
                     " && cd - && mv ", "${packageroot}", "/temp_archive.zip ", "${out}">>,
                   <<"ZIP ", "${out}">>) >>)

(* generate_version_rules that appends the build statement of scm.cc before *)
(* the 'scm' rule: a variant                                                 *)
generate_version_rules_edge_first ==
    LET args == <<"${out}", " ", "${revision}", " ", "${url}", " ", "${profile}", " \"",
                  "${compiler}", "\"">>
        scm == path_join(<<cfg.build_dir>>, <<"scm.cc">>)
    IN  Do(<< _add_rule(Entry("build", "scm",
                              scm \o <<": scm\n", "  revision = ", cfg.scm_revision,
                                       "\n", "  url = ", cfg.scm_url, "\n",
                                       "  profile = ", cfg.profile, "\n",
                                       "  compiler = ", cfg.cc, " ", cfg.cc_version,
                                       "\n">>, 0)),
              Rule("scm", _toolchain_command("scm", <<>>, args), <<"SCM ", "${out}">>),
              _add_rule(Entry("build", "cxx",
                              scm \o <<".o", ": cxx ">> \o scm
                              \o <<"\n", "  cppflags = -w -O2\n", "  cxx_warnings =\n">>,
                              0)) >>)

generate_version_rules ==
    LET args == <<"${out}", " ", "${revision}", " ", "${url}", " ", "${profile}", " \"",
                  "${compiler}", "\"">>
        scm == path_join(<<cfg.build_dir>>, <<"scm.cc">>)
    IN  Do(<< Rule("scm", _toolchain_command("scm", <<>>, args), <<"SCM ", "${out}">>),
              _add_rule(Entry("build", "scm",
                              scm \o <<": scm\n", "  revision = ", cfg.scm_revision,
                                       "\n", "  url = ", cfg.scm_url, "\n",
                                       "  profile = ", cfg.profile, "\n",
                                       "  compiler = ", cfg.cc, " ", cfg.cc_version,
                                       "\n">>, 0)),
              _add_rule(Entry("build", "cxx",
                              scm \o <<".o", ": cxx ">> \o scm
                              \o <<"\n", "  cppflags = -w -O2\n", "  cxx_warnings =\n">>,
                              0)) >>)

(* generate_calls with the thrift and python routines swapped: a variant *)
generate_calls_python_first ==
    << generate_file_header, generate_common_rules, generate_cc_rules,
       generate_proto_rules, generate_resource_rules, generate_java_scala_rules,
       generate_python_rules, generate_thrift_rules, generate_go_rules,
       generate_shell_rules, generate_lex_yacc_rules, generate_package_rules,
       generate_version_rules >>

(* generate(): the routines in the order of lines 538-550 *)
generate_calls ==
    << generate_file_header, generate_common_rules, generate_cc_rules,
       generate_proto_rules, generate_resource_rules, generate_java_scala_rules,
       generate_thrift_rules, generate_python_rules, generate_go_rules,
       generate_shell_rules, generate_lex_yacc_rules, generate_package_rules,
       generate_version_rules >>

(* generate() on a header generator w = [rules_buf, names, environ]: the   *)
(* state it leaves, and whether it exited before returning                  *)
generate(w) ==
    CHOOSE r \in {
      [rules_buf |-> v.rules_buf \o e.buf,
       names |-> v.names \cup e.names,
       environ |-> [k \in DOMAIN v.environ |->
                       IF \E p \in e.env : p[1] = k
                       THEN (CHOOSE p \in e.env : p[1] = k)[2]
                       ELSE v.environ[k]],
       aborted |-> e.aborted] : v \in {w}, e \in {Do(generate_calls)} } : TRUE

(* One direct generate_rule call on a header generator w *)
call_generate_rule(w, a) ==
    CHOOSE r \in { [v EXCEPT !.rules_buf = @ \o e.buf, !.names = @ \cup e.names] :
                   v \in {w}, e \in {generate_rule(a)} } : TRUE

get_all_rule_names(w) == w.names

(* NinjaScriptHeaderGenerator(...): Init's header generator, and a new one *)
NewHeader(env) == [rules_buf |-> <<>>, names |-> {}, environ |-> env, aborted |-> FALSE]

(* NinjaRulesGenerator.generate_build_rules, targets being what            *)
(* blade.gen_targets_rules() returns; rules is the header's rules_buf       *)
generate_build_rules(env, targets) ==
    CHOOSE r \in {
      [hdr |-> hdr,
       generated |-> hdr.rules_buf,
       rules |-> IF hdr.aborted THEN hdr.rules_buf ELSE hdr.rules_buf \o targets,
       names |-> IF hdr.aborted THEN ninja_rule_names ELSE get_all_rule_names(hdr),
       aborted |-> hdr.aborted] : hdr \in {generate(NewHeader(env))} } : TRUE

(* generate_build_script that opens the file before building the rules: a *)
(* variant                                                                 *)
generate_build_script_open_first == <<"open", "build_rules", "writelines", "close">>

(* RulesGenerator.generate_build_script: its statements in their order *)
generate_build_script == <<"build_rules", "open", "writelines", "close">>

StepAfter(step) ==
    LET i == CHOOSE k \in DOMAIN generate_build_script : generate_build_script[k] = step
    IN  IF i = Len(generate_build_script) THEN "done" ELSE generate_build_script[i + 1]

----------------------------------------------------------------------------
(* The configurations *)

BaseCfg ==
    [build_dir |-> "build64_release", blade_path |-> "/blade", executable |-> "python",
     blade_root_dir |-> "/r/w", cwd |-> <<"/", "r", "/", "w">>,
     CC |-> "gcc", CXX |-> "g++", LD |-> "g++", ccache_installed |-> FALSE,
     cflags |-> <<"-std=c99">>, cxxflags |-> <<"-std=c++11">>, cppflags |-> <<"-DX">>,
     flags_except_warning |-> << <<"-m64">>, <<"-lpthread">> >>,
     arflags |-> <<"rcs">>, linkflags |-> <<"-L.">>, extra_incs |-> <<"thirdparty">>,
     securecc |-> "securecc", header_inclusion_dependencies |-> FALSE,
     warnings |-> <<"-Wall">>, cxx_warnings |-> <<"-Wvla">>, c_warnings |-> <<"-Wc">>,
     link_jobs |-> 0, parallel_jobs |-> 8,
     protoc |-> "protoc", protoc_java |-> "", protobuf_incs |-> <<"thirdparty">>,
     protobuf_java_incs |-> <<>>, protoc_go_plugin |-> "", protobuf_go_path |-> "pb",
     protoc_go_subplugins |-> <<>>,
     java_home |-> <<>>, java_source_version |-> "8", java_target_version |-> "8",
     jacoco_home |-> <<>>, one_jar_boot_jar |-> "boot.jar", scala_home |-> <<>>,
     thrift |-> <<"thrift">>, thrift_incs |-> <<"thirdparty">>, thrift_gen_params |-> "cpp",
     go_home |-> <<>>, go |-> <<>>, go_module_enabled |-> FALSE,
     go_module_relpath |-> <<>>,
     scm_revision |-> "r1", scm_url |-> "url", profile |-> "release",
     cc |-> "gcc", cc_version |-> "9"]

GoHome == <<"/", "opt", "/", "gopath">>

(* The configurations of Spec: the link, compile and plug-in settings vary *)
Configs ==
    { [BaseCfg EXCEPT !.link_jobs = lj, !.parallel_jobs = pj,
                      !.header_inclusion_dependencies = hid, !.ccache_installed = cch,
                      !.protoc_go_plugin = plugin, !.go_home = gh, !.go = go,
                      !.go_module_enabled = gm, !.go_module_relpath = rel] :
        lj \in 0..MaxLinkJobs, pj \in ParallelJobs, hid \in BOOLEAN, cch \in BOOLEAN,
        plugin \in {"", "protoc-gen-go"}, gh \in {<<>>, GoHome}, go \in {<<>>, <<"go">>},
        gm \in BOOLEAN, rel \in {<<>>, <<"sub">>} }

(* The configurations of SpecGo: the Go settings and the directory vary *)
GoConfigs ==
    { [BaseCfg EXCEPT !.cwd = cwd, !.go_home = gh, !.go = go,
                      !.go_module_enabled = gm, !.go_module_relpath = rel] :
        cwd \in {<<"/", "r", "/", "w">>, <<"/", "r">>},
        gh \in {<<>>, GoHome, <<"gopath">>},
        go \in {<<>>, <<"go">>, <<"/", "usr", "/", "bin", "/", "go">>,
                <<"tools", "/", "go">>},
        gm \in BOOLEAN,
        rel \in {<<>>, <<"sub">>, <<"sub", "/", "m">>, <<"sub", "/">>, <<"..", "/", "m">>,
                 <<".">>, <<"/", "abs", "/", "m">>, <<"tools">>} }

(* The values a BLADE_ROOT file may give link_config.link_jobs: the code reads *)
(* the item as it is (line 207), any integer the user wrote                   *)
LinkJobsGiven == (0 - MaxLinkJobs)..MaxLinkJobs

PoolConfigs ==
    { [BaseCfg EXCEPT !.link_jobs = lj, !.parallel_jobs = pj, !.go_home = gh, !.go = go] :
        lj \in LinkJobsGiven, pj \in ParallelJobs \cup {1},
        gh \in {<<>>, GoHome}, go \in {<<>>, <<"go">>} }

(* What blade.gen_targets_rules() may return: build edges, each using a rule *)
Edge(rule) == Entry("build", rule, <<"obj/a", ": ", rule, " a.src\n">>, 0)

TargetRules ==
    { <<>>, <<Edge("cxx")>>, <<Edge("cxx"), Edge("link")>>, <<Edge("gotest")>>,
      <<Edge("cxx"), Edge("nosuchrule")>> }

OldScript == <<Entry("text", "", <<"# the build.ninja of the previous build\n">>, 0)>>

NoArgs == [name |-> "", command |-> <<>>] @@ RuleDefaults

(* No direct _toolchain_command call made yet *)
NoCall == [builder |-> "", prefix |-> <<>>, suffix |-> <<>>, cmd |-> <<>>]

(* The arguments the model draws for a direct _toolchain_command call: the *)
(* builders, prefixes and suffixes of lines 200-509, and others             *)
ToolchainArgs ==
    [builder : {"scm", "java_test", "securecc_object", "package", "x"},
     prefix : {<<>>, <<"JACOCOAGENT=", "/jacoco/lib/jacocoagent.jar">>, <<"A=1 B=2">>},
     suffix : {<<>>, <<"${out}", " ", "${in}", " ", "${mainclass}">>, <<"${name}">>,
               <<"${in}", " ", "${out}">>}]

(* The installations the direct _toolchain_command calls are made under *)
ToolchainConfigs ==
    { [BaseCfg EXCEPT !.blade_path = bp, !.executable = ex] :
        bp \in {"/blade", "/opt/blade.zip"}, ex \in {"python", "/usr/bin/python2.7"} }

(* The arguments the model draws for a direct generate_rule call *)
OptTexts(v) == {None, Some(<<>>), Some(v)}

RuleArgs ==
    [name : {"r1", "r2"}, command : {<<>>, <<"cmd ", "${in}">>},
     description : OptTexts(<<"DESC">>), depfile : OptTexts(<<"${out}", ".d">>),
     generator : BOOLEAN, pool : OptTexts(<<"heavy_pool">>), restat : BOOLEAN,
     rspfile : OptTexts(<<"${out}", ".rsp">>), rspfile_content : OptTexts(<<"${in}">>),
     deps : OptTexts(<<"gcc">>)]

----------------------------------------------------------------------------
(* The state machine *)

InitWith(configs) ==
    /\ cfg \in configs
    /\ rules_buf = <<>>
    /\ all_rule_names = {}
    /\ environ = [k \in {"CCACHE_BASEDIR", "CCACHE_NOHASHDIR"} |-> ""]
    /\ gen_calls = 0
    /\ gen_first = <<>>
    /\ gen_last = <<>>
    /\ seg_from = 0
    /\ seg_to = 0
    /\ ninja_rule_names = {}
    /\ script_file = OldScript
    /\ pc = "idle"
    /\ last_args = NoArgs
    /\ toolchain_call = NoCall

Init == InitWith(Configs)

InitGo == InitWith(GoConfigs)

InitRule == InitWith({BaseCfg})

InitPool == InitWith(PoolConfigs)

InitToolchain == InitWith(ToolchainConfigs)

Header == [rules_buf |-> rules_buf, names |-> all_rule_names, environ |-> environ,
           aborted |-> FALSE]

(* A caller calls generate() on the header generator *)
Generate ==
    /\ pc = "idle"
    /\ gen_calls < MaxGenerate
    /\ \E w \in {generate(Header)} :
           /\ rules_buf' = w.rules_buf
           /\ all_rule_names' = w.names
           /\ environ' = w.environ
           /\ seg_from' = Len(rules_buf)
           /\ seg_to' = Len(w.rules_buf)
           /\ gen_calls' = gen_calls + 1
           /\ gen_first' = IF gen_calls = 0 /\ ~w.aborted THEN w.rules_buf ELSE gen_first
           /\ gen_last' = IF w.aborted THEN gen_last ELSE w.rules_buf
           /\ pc' = IF w.aborted THEN "exit_generate" ELSE pc
    /\ UNCHANGED <<cfg, ninja_rule_names, script_file, last_args, toolchain_call>>

(* A caller calls generate_build_script() *)
CallGenerateBuildScript ==
    /\ pc = "idle"
    /\ pc' = generate_build_script[1]
    /\ UNCHANGED <<cfg, rules_buf, all_rule_names, environ, gen_calls, gen_first,
                   gen_last, seg_from, seg_to, ninja_rule_names, script_file, last_args,
                   toolchain_call>>

(* rules = self.generate_build_rules() *)
BuildRules ==
    /\ pc = "build_rules"
    /\ \E targets \in TargetRules :
         \E r \in {generate_build_rules(environ, targets)} :
             /\ rules_buf' = r.rules
             /\ all_rule_names' = r.hdr.names
             /\ environ' = r.hdr.environ
             /\ seg_from' = 0
             /\ seg_to' = Len(r.generated)
             /\ gen_calls' = 1
             /\ gen_first' = IF r.aborted THEN <<>> ELSE r.generated
             /\ gen_last' = IF r.aborted THEN <<>> ELSE r.generated
             /\ ninja_rule_names' = r.names
             /\ pc' = IF r.aborted THEN "exit_script" ELSE StepAfter("build_rules")
    /\ UNCHANGED <<cfg, script_file, last_args, toolchain_call>>

(* script = open(self.script_path, 'w') *)
OpenScript ==
    /\ pc = "open"
    /\ script_file' = <<>>
    /\ pc' = StepAfter("open")
    /\ UNCHANGED <<cfg, rules_buf, all_rule_names, environ, gen_calls, gen_first,
                   gen_last, seg_from, seg_to, ninja_rule_names, last_args, toolchain_call>>

(* script.writelines(rules) *)
WriteLines ==
    /\ pc = "writelines"
    /\ script_file' = script_file \o rules_buf
    /\ pc' = StepAfter("writelines")
    /\ UNCHANGED <<cfg, rules_buf, all_rule_names, environ, gen_calls, gen_first,
                   gen_last, seg_from, seg_to, ninja_rule_names, last_args, toolchain_call>>

(* script.close(); return rules *)
CloseScript ==
    /\ pc = "close"
    /\ pc' = StepAfter("close")
    /\ UNCHANGED <<cfg, rules_buf, all_rule_names, environ, gen_calls, gen_first,
                   gen_last, seg_from, seg_to, ninja_rule_names, script_file, last_args,
                   toolchain_call>>

(* A caller calls generate_rule() on a new header generator *)
CallGenerateRule ==
    /\ pc = "idle"
    /\ last_args = NoArgs
    /\ \E a \in RuleArgs :
         \E w \in {call_generate_rule(Header, a)} :
             /\ rules_buf' = w.rules_buf
             /\ all_rule_names' = w.names
             /\ last_args' = a
    /\ UNCHANGED <<cfg, environ, gen_calls, gen_first, gen_last, seg_from, seg_to,
                   ninja_rule_names, script_file, pc, toolchain_call>>

(* A direct call of _toolchain_command(builder, prefix, suffix): it returns *)
(* the command and assigns no field                                         *)
CallToolchainCommand ==
    /\ pc = "idle"
    /\ toolchain_call = NoCall
    /\ \E a \in ToolchainArgs :
         \E c \in {_toolchain_command(a.builder, a.prefix, a.suffix)} :
             toolchain_call' = [builder |-> a.builder, prefix |-> a.prefix,
                                suffix |-> a.suffix, cmd |-> c]
    /\ UNCHANGED <<cfg, rules_buf, all_rule_names, environ, gen_calls, gen_first,
                   gen_last, seg_from, seg_to, ninja_rule_names, script_file, pc,
                   last_args>>

Next ==
    \/ Generate
    \/ CallGenerateBuildScript
    \/ BuildRules
    \/ OpenScript
    \/ WriteLines
    \/ CloseScript

NextRule == CallGenerateRule

Spec == Init /\ [][Next]_vars

SpecGo == InitGo /\ [][Next]_vars

SpecRule == InitRule /\ [][NextRule]_vars

SpecPool == InitPool /\ [][Next]_vars

NextToolchain == CallToolchainCommand

SpecToolchain == InitToolchain /\ [][NextToolchain]_vars

----------------------------------------------------------------------------
(* Reading a buffer *)

(* The rule lines of buf among the entries from+1..to *)
RuleLines(buf, from, to) == { i \in (from + 1)..to : buf[i].kind = "rule" }

(* The field lines of the rule at line i: the lines that follow it directly; *)
(* a rule has its command and at most one line per keyword argument          *)
FieldLines(buf, i) ==
    { j \in (i + 1)..Min(i + 1 + Cardinality(DOMAIN RuleDefaults), Len(buf)) :
        \A k \in (i + 1)..j : buf[k].kind = "field" }

HasField(buf, i, key) == \E j \in FieldLines(buf, i) : buf[j].name = key

FieldValues(buf, i, key) == { buf[j].val : j \in { k \in FieldLines(buf, i) : buf[k].name = key } }

(* The latest generate() call returned *)
GenerateReturned == gen_calls > 0 /\ pc \notin {"exit_generate", "exit_script"}

(* generate_build_rules() returned *)
BuildRulesReturned == pc \in {"open", "writelines", "close", "done"}

(* The names of the rule and pool declarations among the entries from+1..to, *)
(* in their order                                                            *)
DeclaredOrder(buf, from, to) ==
    LET decls == SelectSeq(SubSeq(buf, from + 1, to),
                           LAMBDA e : e.kind \in {"rule", "pool"})
    IN  [i \in DOMAIN decls |-> decls[i].name]

(* The first place of chunk c in the text, 0 when it has none *)
IndexOf(text, c) ==
    IF \E i \in DOMAIN text : text[i] = c
    THEN CHOOSE i \in DOMAIN text : text[i] = c /\ \A j \in 1..(i - 1) : text[j] # c
    ELSE 0

(* Where a path leads from the directory dir (a sequence of names below the *)
(* root), followed one component at a time                                  *)
RECURSIVE Walk(_, _)
Walk(dir, path) ==
    IF path = <<>> THEN dir
    ELSE LET c == Head(path)
         IN  Walk(IF c \in {"/", "."} THEN dir
                  ELSE IF c = ".." THEN SubSeq(dir, 1, Len(dir) - 1)
                  ELSE Append(dir, c),
                  Tail(path))

Resolve(dir, path) == Walk(IF path # <<>> /\ path[1] = "/" THEN <<>> ELSE dir, path)

----------------------------------------------------------------------------
(* C1: registering a rule name that is already registered fails and appends *)
(* no second 'rule <name>' block, so every rule name appears at most once   *)
(* in the manifest buffer.                                                  *)
C1_RuleNamesAppearOnce ==
    \A i, j \in RuleLines(rules_buf, 0, Len(rules_buf)) :
        rules_buf[i].name = rules_buf[j].name => i = j

(* C2: generate() called twice on the same generator with unchanged         *)
(* configuration returns the same output both times.                        *)
C2_GenerateIsIdempotent ==
    (gen_calls >= 2 /\ GenerateReturned) => gen_last = gen_first

(* C3: generate_build_script never writes a manifest in which an edge of the *)
(* target-graph component uses a rule outside the declared rule-name set.    *)
C3_NoUndeclaredRuleWritten ==
    pc \in {"close", "done"} =>
        \A i \in (seg_to + 1)..Len(script_file) :
            script_file[i].kind = "build" => script_file[i].name \in ninja_rule_names

(* C4: the file at script_path is opened and written only after             *)
(* generate_build_rules has returned; a run that exits with a configuration  *)
(* error leaves the file as it was.                                          *)
C4_NoPartialManifest ==
    /\ pc = "exit_script" => script_file = OldScript
    /\ script_file # OldScript => pc \in {"writelines", "close", "done"}

C4_Witness ==
    /\ pc = "exit_script"
    /\ cfg.protoc_go_plugin # "" /\ cfg.go_home = <<>>
    /\ \E i \in DOMAIN rules_buf : rules_buf[i].name = "protodescriptors"
    /\ script_file = OldScript

(* C5: the link pool is emitted only when link_jobs is set, its depth is    *)
(* min(link_jobs, parallel jobs), and 'link' and 'solink' have the pool      *)
(* field link_pool exactly when the pool is emitted.                         *)
C5_LinkPool ==
    LET pools == { i \in (seg_from + 1)..seg_to :
                     rules_buf[i].kind = "pool" /\ rules_buf[i].name = "link_pool" }
        links == { i \in RuleLines(rules_buf, seg_from, seg_to) :
                     rules_buf[i].name \in {"link", "solink"} }
        lj == cfg.link_jobs
        pj == cfg.parallel_jobs
    IN  gen_calls > 0 =>
        /\ Cardinality(links) = 2
        /\ lj = 0 => /\ pools = {}
                     /\ \A i \in links : ~HasField(rules_buf, i, "pool")
        /\ lj # 0 => /\ Cardinality(pools) = 1
                     /\ \A p \in pools :
                          /\ rules_buf[p].depth = (IF lj <= pj THEN lj ELSE pj)
                          /\ rules_buf[p].depth <= lj /\ rules_buf[p].depth <= pj
                          /\ (lj = 4 /\ pj = 8) => rules_buf[p].depth = 4
                          /\ (lj = 4 /\ pj = 2) => rules_buf[p].depth = 2
                          /\ \A i \in links : p < i
                     /\ \A i \in links :
                          FieldValues(rules_buf, i, "pool") = {<<"link_pool">>}

C5_Witness ==
    /\ cfg.link_jobs = 4 /\ cfg.parallel_jobs = 2
    /\ \E i \in DOMAIN rules_buf :
         /\ rules_buf[i].kind = "pool" /\ rules_buf[i].name = "link_pool"
         /\ rules_buf[i].depth = 2

GoVerb == [gopackage |-> " install ", gocommand |-> " build -o ", gotest |-> " test -c -o "]

OutPaths == { <<"build64_release", "/", "a", "/", "main">>, <<"main">>, <<".", "/", "b">> }

C7_GoModuleSubPath ==
    LET p == cfg.go_module_relpath
        here == Resolve(<<>>, cfg.cwd)
        there == Resolve(here, p)
    IN  \A i \in RuleLines(rules_buf, seg_from, seg_to) :
          rules_buf[i].name \in DOMAIN GoVerb =>
            LET name == rules_buf[i].name
                cmd == rules_buf[i + 1].val
                verb == IndexOf(cmd, GoVerb[name])
                out == IndexOf(cmd, "${out}")
                binary == SubSeq(cmd, Len(p) + 3, verb - 1)
                out_prefix == SubSeq(cmd, verb + 1, out - 1)
            IN  /\ rules_buf[i + 1].name = "command"
                /\ verb > 0
                /\ name # "gopackage" => out > verb
                /\ IF cfg.go_module_enabled /\ p # <<>>
                   THEN /\ SubSeq(cmd, 1, Len(p) + 2) = <<"cd ">> \o p \o <<" && ">>
                        /\ binary # <<>> /\ binary[1] # "/"
                        /\ Resolve(there, binary) = Resolve(here, cfg.go)
                        /\ name # "gopackage" =>
                             /\ out_prefix # <<>>
                             /\ out_prefix[Len(out_prefix)] = "/"
                             /\ \A o \in OutPaths :
                                  Resolve(there, out_prefix \o o) = Resolve(here, o)
                   ELSE /\ IndexOf(cmd, "cd ") = 0
                        /\ IndexOf(cmd, " && ") = 0
                        /\ name # "gopackage" => out_prefix = <<>>

C7_Witness ==
    /\ cfg.go_module_enabled /\ cfg.go_module_relpath = <<"sub", "/", "m">>
    /\ cfg.go = <<"tools", "/", "go">>
    /\ \E i \in RuleLines(rules_buf, seg_from, seg_to) :
         /\ rules_buf[i].name = "gotest"
         /\ LET cmd == rules_buf[i + 1].val
            IN  SubSeq(cmd, IndexOf(cmd, " test -c -o ") + 1, IndexOf(cmd, "${out}") - 1)
                    = <<"..", "/", "..", "/">>

(* C8: after generate_build_rules has returned, get_all_rule_names() of the *)
(* NinjaRulesGenerator has a name exactly when the header generator emitted *)
(* a 'rule <name>' block with that name in that session.                    *)
C8_RuleNamesAreDeclaredRules ==
    BuildRulesReturned =>
        ninja_rule_names = { rules_buf[i].name : i \in RuleLines(rules_buf, 0, seg_to) }

C8_Witness ==
    /\ pc = "open"
    /\ "gopackage" \in ninja_rule_names
    /\ "protogo" \notin ninja_rule_names
    /\ "cchdrs" \in ninja_rule_names

(* C9 as stated: the header, then heavy_pool with depth 1, then the blocks, *)
(* with the link rules and the 'scm' rule as the last rules of the          *)
(* manifest.                                                                *)
C9_LinkAndScmLast ==
    GenerateReturned =>
        LET rl == RuleLines(rules_buf, seg_from, seg_to)
            last == { i \in rl : Cardinality({ j \in rl : j > i }) < 3 }
        IN  /\ rules_buf[seg_from + 1].kind = "text"
            /\ rules_buf[seg_from + 2].kind = "pool"
            /\ rules_buf[seg_from + 2].name = "heavy_pool"
            /\ rules_buf[seg_from + 2].depth = 1
            /\ { rules_buf[i].name : i \in last } = {"link", "solink", "scm"}

(* C9 amended: generate() emits the header, then heavy_pool with depth 1,   *)
(* then the rules and pools of the blocks common, cc, proto, resource,      *)
(* java/scala, thrift, python, go, shell, lex/yacc, package, version in     *)
(* this one order; 'link' and 'solink' are in the cc block, after 'ar' and  *)
(* the link pool and before 'strip'; 'scm' is the last rule, followed only  *)
(* by its two build statements.                                             *)
FixedOrder ==
    << "heavy_pool", "stamp", "copy", "cc", "cxx", "cchdrs", "cxxhdrs",
       "securecccompile", "securecc", "ar", "link_pool", "link", "solink", "strip",
       "proto", "protojava", "protopython", "protodescriptors", "protogo",
       "resource_index", "resource", "javac", "javaresource", "javajar", "javatest",
       "fatjar", "onejar", "javabinary", "scalac", "scalatest", "thrift",
       "pythonlibrary", "pythonbinary", "golang_pool", "gopackage", "gocommand",
       "gotest", "shelltest", "shelltestdata", "lex", "yacc", "package", "package_tar",
       "package_zip", "scm" >>

Configured(name) ==
    IF name \in {"cchdrs", "cxxhdrs"} THEN cfg.header_inclusion_dependencies
    ELSE IF name = "link_pool" THEN cfg.link_jobs # 0
    ELSE IF name = "protogo" THEN cfg.protoc_go_plugin # ""
    ELSE IF name \in {"golang_pool", "gopackage", "gocommand", "gotest"}
    THEN cfg.go_home # <<>> /\ cfg.go # <<>>
    ELSE TRUE

C9_FixedOrder ==
    GenerateReturned =>
        /\ rules_buf[seg_from + 1].kind = "text"
        /\ rules_buf[seg_from + 1].val[1] = "# build.ninja generated by blade\n"
        /\ rules_buf[seg_from + 2].kind = "pool"
        /\ rules_buf[seg_from + 2].name = "heavy_pool"
        /\ rules_buf[seg_from + 2].depth = 1
        /\ DeclaredOrder(rules_buf, seg_from, seg_to) = SelectSeq(FixedOrder, Configured)
        /\ \E i \in RuleLines(rules_buf, seg_from, seg_to) :
             /\ rules_buf[i].name = "scm"
             /\ i + 4 = seg_to
             /\ rules_buf[seg_to - 1].kind = "build" /\ rules_buf[seg_to].kind = "build"

C9_Witness ==
    /\ GenerateReturned
    /\ cfg.link_jobs # 0 /\ cfg.go_home # <<>> /\ cfg.go # <<>>
    /\ \E i, j, k \in RuleLines(rules_buf, seg_from, seg_to) :
         /\ rules_buf[i].name = "solink"
         /\ rules_buf[j].name = "strip"
         /\ rules_buf[k].name = "gotest"
         /\ i < j /\ j < k

(* C10: a generate_rule call always emits the 'rule <name>' line and the    *)
(* 'command' line; an optional field whose argument is absent, false or     *)
(* empty has no line in the block, and no emitted field line of an optional *)
(* field has an empty value.                                                *)
OptionalKeys == DOMAIN RuleDefaults

Given(key) ==
    IF key \in {"generator", "restat"} THEN last_args[key]
    ELSE last_args[key] \notin {{}, {<<>>}}

C10_AbsentFieldsHaveNoLine ==
    last_args # NoArgs =>
        /\ Len(rules_buf) >= 2
        /\ rules_buf[1].kind = "rule" /\ rules_buf[1].name = last_args.name
        /\ rules_buf[2].kind = "field" /\ rules_buf[2].name = "command"
        /\ rules_buf[2].val = last_args.command
        /\ \A j \in 3..Len(rules_buf) :
             /\ rules_buf[j].kind = "field"
             /\ rules_buf[j].name \in OptionalKeys
             /\ rules_buf[j].val # <<>>
             /\ \A k \in 3..Len(rules_buf) : rules_buf[k].name = rules_buf[j].name => k = j
        /\ \A key \in OptionalKeys :
             (\E j \in 3..Len(rules_buf) : rules_buf[j].name = key) <=> Given(key)

C10_Witness ==
    /\ last_args # NoArgs
    /\ last_args.depfile = Some(<<>>) /\ last_args.description = None
    /\ last_args.generator /\ ~last_args.restat
    /\ last_args.deps = Some(<<"gcc">>)
    /\ Len(rules_buf) = 4

(* C11: without protoc_go_plugin, generate_proto_rules emits 'proto',        *)
(* 'protojava', 'protopython' and 'protodescriptors', no 'protogo', and      *)
(* does not fail, whatever go_home is, and the rest of the manifest is       *)
(* emitted; with protoc_go_plugin and without go_home synthesis exits after  *)
(* 'protodescriptors' and 'protogo' is never emitted.                        *)
ProtoRules == {"proto", "protojava", "protopython", "protodescriptors"}

Exited == pc \in {"exit_generate", "exit_script"}

C11_OptionalPluginRequiredGoHome ==
    LET emitted == { rules_buf[i].name : i \in RuleLines(rules_buf, seg_from, seg_to) }
    IN  gen_calls > 0 =>
        /\ ProtoRules \subseteq emitted
        /\ cfg.protoc_go_plugin = "" =>
             /\ "protogo" \notin emitted
             /\ ~Exited
             /\ {"resource", "scm"} \subseteq emitted
        /\ (cfg.protoc_go_plugin # "" /\ cfg.go_home = <<>>) =>
             /\ Exited
             /\ "protogo" \notin emitted
             /\ \A i \in RuleLines(rules_buf, seg_from, seg_to) :
                  rules_buf[i].name \notin ProtoRules =>
                      \E j \in RuleLines(rules_buf, seg_from, seg_to) :
                          j > i /\ rules_buf[j].name = "protodescriptors"
        /\ Exited => (cfg.protoc_go_plugin # "" /\ cfg.go_home = <<>>)

C11_Witness ==
    /\ pc = "exit_generate"
    /\ cfg.protoc_go_plugin # "" /\ cfg.go_home = <<>> /\ cfg.go # <<>>
    /\ \E i \in RuleLines(rules_buf, seg_from, seg_to) :
         rules_buf[i].name = "protodescriptors" /\ i + 2 = Len(rules_buf)

(* C12: every pool declaration in the manifest has a depth that is an       *)
(* integer of at least 1, for every configured link_jobs and every available *)
(* parallelism for which a link pool is emitted.                            *)
C12_PoolDepthAtLeastOne ==
    \A i \in DOMAIN rules_buf :
        rules_buf[i].kind = "pool" => rules_buf[i].depth \in Nat \ {0}

(* C13: the command _toolchain_command builds is, in this order, the       *)
(* PYTHONPATH prefix with the helper's library path, the extra environment  *)
(* prefix when one is given, the interpreter with '-m blade.toolchain' and  *)
(* the builder, then the given suffix, or exactly '${out} ${in}' when none  *)
(* is given; the call appends nothing to the buffer, registers no rule name *)
(* and sets no environment entry.                                           *)
C13_ToolchainCommandShape ==
    toolchain_call # NoCall =>
        LET cmd == toolchain_call.cmd
            prefix == toolchain_call.prefix
            suffix == toolchain_call.suffix
            m == IndexOf(cmd, " -m blade.toolchain ")
            env_end == 3 + (IF prefix = <<>> THEN 0 ELSE 1 + Len(prefix))
            args == SubSeq(cmd, m + 3, Len(cmd))
        IN  /\ SubSeq(cmd, 1, 3) = <<"PYTHONPATH=", cfg.blade_path, ":$$PYTHONPATH">>
            /\ prefix # <<>> => SubSeq(cmd, 4, env_end) = <<" ">> \o prefix
            /\ m = env_end + 3
            /\ cmd[m - 2] = " " /\ cmd[m - 1] = cfg.executable
            /\ cmd[m + 1] = toolchain_call.builder
            /\ cmd[m + 2] = " "
            /\ args = (IF suffix # <<>> THEN suffix ELSE <<"${out}", " ", "${in}">>)
            /\ rules_buf = <<>> /\ all_rule_names = {}
            /\ \A k \in DOMAIN environ : environ[k] = ""

C13_Witness ==
    /\ toolchain_call # NoCall
    /\ toolchain_call.prefix # <<>>
    /\ toolchain_call.suffix = <<"${name}">>
    /\ toolchain_call.cmd[Len(toolchain_call.cmd)] = "${name}"
    /\ IndexOf(toolchain_call.cmd, "${out}") = 0

(* C14: with both go_home and go configured, generate_go_rules declares      *)
(* 'golang_pool' with depth 1 once, before any Go rule, and each of          *)
(* 'gopackage', 'gocommand' and 'gotest' is emitted with pool = golang_pool; *)
(* without go_home or without go neither the pool nor any of the three rules *)
(* is emitted, the routine does not fail and the following routines emit     *)
(* their rules.                                                              *)
C14_GoPool ==
    LET rl == RuleLines(rules_buf, seg_from, seg_to)
        pools == { i \in (seg_from + 1)..seg_to :
                     rules_buf[i].kind = "pool" /\ rules_buf[i].name = "golang_pool" }
        gorules == { i \in rl : rules_buf[i].name \in DOMAIN GoVerb }
        bound == { i \in rl : <<"golang_pool">> \in FieldValues(rules_buf, i, "pool") }
    IN  gen_calls > 0 =>
        IF cfg.go_home # <<>> /\ cfg.go # <<>>
        THEN /\ ~Exited
             /\ Cardinality(pools) = 1
             /\ \A p \in pools : /\ rules_buf[p].depth = 1
                                 /\ \A i \in gorules : p < i
             /\ Cardinality(gorules) = 3
             /\ { rules_buf[i].name : i \in gorules } = DOMAIN GoVerb
             /\ bound = gorules
             /\ \A i \in gorules : FieldValues(rules_buf, i, "pool") = {<<"golang_pool">>}
        ELSE /\ pools = {} /\ gorules = {} /\ bound = {}
             /\ Exited => (cfg.protoc_go_plugin # "" /\ cfg.go_home = <<>>)
             /\ ~Exited => \A n \in {"pythonbinary", "shelltest", "scm"} :
                               \E i \in rl : rules_buf[i].name = n

C14_Witness ==
    /\ gen_calls > 0 /\ ~Exited
    /\ cfg.go_home # <<>> /\ cfg.go # <<>> /\ cfg.go_module_enabled
    /\ \E p, i \in (seg_from + 1)..seg_to :
         /\ rules_buf[p].kind = "pool" /\ rules_buf[p].name = "golang_pool"
         /\ rules_buf[p].depth = 1
         /\ rules_buf[i].kind = "rule" /\ rules_buf[i].name = "gotest"
         /\ p < i
         /\ HasField(rules_buf, i, "pool")

(* C15: in the header generator's output every reference is preceded by its *)
(* declaration: a rule's pool field names a pool declared earlier, a         *)
(* manifest-wide variable the builder declares is declared before the first  *)
(* command that references it, and a build statement names a rule declared   *)
(* earlier.                                                                  *)
BuilderVariables ==
    { "c_warnings", "cxx_warnings", "protocflags", "protoccpppluginflags",
      "protocjavapluginflags", "protocpythonpluginflags", "source_encoding", "classpath",
      "javacflags", "javatargetundertestpkg", "scalacflags", "pythonbasedir" }

(* The forms of a line that declares v, and the reference to v *)
DeclChunks ==
    [v \in BuilderVariables |->
        { v \o " =" \o rest : rest \in {" ", "\n", " .\n", " UTF-8\n", " -nowarn\n",
                                        " __targetundertestpkg__",
                                        " __pythonbasedir__\n"} }]

VarRef == [v \in BuilderVariables |-> "${" \o v \o "}"]

VarRefs == { VarRef[v] : v \in BuilderVariables }

(* The text entry at line d has a line 'v = ...' *)
Declares(d, v) ==
    /\ rules_buf[d].kind = "text"
    /\ \E k \in DOMAIN rules_buf[d].val : rules_buf[d].val[k] \in DeclChunks[v]

(* The command at line i has ${v} *)
References(i, v) ==
    /\ rules_buf[i].kind = "field" /\ rules_buf[i].name = "command"
    /\ \E k \in DOMAIN rules_buf[i].val : rules_buf[i].val[k] = VarRef[v]

(* The lines of the latest generate() call *)
Segment == (seg_from + 1)..seg_to

PoolsDeclaredBeforeUse ==
    \A j \in Segment :
        (rules_buf[j].kind = "field" /\ rules_buf[j].name = "pool") =>
            \E p \in (seg_from + 1)..(j - 1) :
                rules_buf[p].kind = "pool" /\ <<rules_buf[p].name>> = rules_buf[j].val

VariablesDeclaredBeforeUse ==
    \E texts \in {{ d \in Segment : rules_buf[d].kind = "text" }} :
        \A i \in Segment :
            (rules_buf[i].kind = "field" /\ rules_buf[i].name = "command") =>
                \A k \in DOMAIN rules_buf[i].val :
                    rules_buf[i].val[k] \in VarRefs =>
                        \A v \in BuilderVariables :
                            rules_buf[i].val[k] = VarRef[v] =>
                                \E d \in texts : d < i /\ Declares(d, v)

EdgeRuleDeclaredBefore(i) ==
    \E r \in (seg_from + 1)..(i - 1) :
        rules_buf[r].kind = "rule" /\ rules_buf[r].name = rules_buf[i].name

(* C15 as stated: every build statement of the header generator names a rule *)
(* declared earlier in the buffer.                                           *)
C15_DeclaredBeforeUse ==
    /\ PoolsDeclaredBeforeUse
    /\ VariablesDeclaredBeforeUse
    /\ \A i \in Segment : rules_buf[i].kind = "build" => EdgeRuleDeclaredBefore(i)

(* C15 amended: pools and builder-declared variables are declared before     *)
(* their first use, and every build statement of the header generator names  *)
(* a rule declared earlier, except 'build __securecc_phony__ : phony', whose *)
(* rule 'phony' is the execution engine's own and is declared nowhere in the *)
(* buffer; the header generator emits this statement, the 'scm' statement    *)
(* and the 'cxx' statement for scm.cc and no other.                          *)
C15_DeclaredBeforeUseButPhony ==
    /\ PoolsDeclaredBeforeUse
    /\ VariablesDeclaredBeforeUse
    /\ \A i \in Segment :
         /\ rules_buf[i].kind = "build" =>
              /\ rules_buf[i].name \in {"phony", "scm", "cxx"}
              /\ rules_buf[i].name # "phony" => EdgeRuleDeclaredBefore(i)
              /\ rules_buf[i].name = "phony" =>
                   /\ rules_buf[i].val = <<"__securecc_phony__ : phony\n">>
                   /\ ~EdgeRuleDeclaredBefore(i)
         /\ rules_buf[i].kind = "rule" => rules_buf[i].name # "phony"
    /\ GenerateReturned =>
         \E cmds \in {{ i \in Segment : rules_buf[i].kind = "field"
                                        /\ rules_buf[i].name = "command" }} :
             /\ \A v \in BuilderVariables : \E i \in cmds : References(i, v)
             /\ \A n \in {"phony", "scm", "cxx"} :
                  \E i \in Segment : rules_buf[i].kind = "build" /\ rules_buf[i].name = n

C15_Witness ==
    /\ GenerateReturned
    /\ cfg.link_jobs # 0 /\ cfg.go_home # <<>> /\ cfg.go # <<>>
    /\ rules_buf[seg_to].kind = "build" /\ rules_buf[seg_to].name = "cxx"
    /\ \E d, i \in Segment :
         d < i /\ Declares(d, "classpath") /\ References(i, "classpath")
    /\ \E i \in RuleLines(rules_buf, seg_from, seg_to) :
         rules_buf[i].name = "solink" /\ HasField(rules_buf, i, "pool")

=============================================================================
